---- MODULE Spec2Model ----
(***************************************************************************)
(* Markov-chain text generator (MC_Text_Generator.py).                     *)
(*                                                                         *)
(* A Python dict is a sequence of <<key, value>> pairs with distinct keys, *)
(* in insertion order.  A tuple or list is a sequence.  A float            *)
(* probability is the exact rational <<numerator, denominator>> with a     *)
(* positive denominator; the shortfall that floating-point rounding can    *)
(* leave in a cumulative sum is covered by distributions whose weights sum *)
(* to less than one.  A call either returns a value or raises:             *)
(* [raised |-> BOOLEAN, value |-> the value, or the exception's name].     *)
(***************************************************************************)
EXTENDS Integers, Sequences, FiniteSets, TLC

VARIABLES
    tokens,            \* tokenize(text): the token list of the input text
    order,             \* the Markov chain order handed to the builders
    max_words,         \* generate_random_text's max_words
    model,             \* state -> {next_token: count}
    beta_probs,        \* start state -> probability
    omega_probs,       \* state -> ending probability
    current_state,     \* generate_random_text's current_state
    generated,         \* generate_random_text's generated
    calls,             \* get_next_word calls made so far (loop iterations)
    state,             \* argument of the latest get_next_word call
    next_token_probs,  \* distribution that call handed to weighted_choice
    r,                 \* the latest random.random() draw
    next_token,        \* result of the latest get_next_word call
    freqs,             \* argument of distribution_probabilities
    options_dict,      \* argument of weighted_choice
    choice,            \* outcome of the latest direct weighted_choice call
    pc,                \* position in the driver / generate_random_text
    err                \* name of the exception raised, "" if none

vars == <<tokens, order, max_words, model, beta_probs, omega_probs,
          current_state, generated, calls, state, next_token_probs, r,
          next_token, freqs, options_dict, choice, pc, err>>

\* ------------------------------------------------------------------ bounds
MaxLen == 3
MaxOrder == 2
MaxNegOrder == 2
MaxWords == 3
MaxCount == 2
MaxKeys == 2
Grid == 4
RD == 12

START == "*S*"
END == "*E*"

\* ------------------------------------------------------- Python primitives
Return(v) == [raised |-> FALSE, value |-> v]
Raise(e) == [raised |-> TRUE, value |-> e]

Min(a, b) == IF a < b THEN a ELSE b
Max(a, b) == IF a > b THEN a ELSE b

\* s[lo:hi] with Python's clamping of negative and out-of-range bounds
PySlice(s, lo, hi) ==
    LET n == Len(s)
        l == IF lo < 0 THEN Max(lo + n, 0) ELSE Min(lo, n)
        h == IF hi < 0 THEN Max(hi + n, 0) ELSE Min(hi, n)
    IN  SubSeq(s, l + 1, h)

\* s[i] is defined for -len(s) <= i < len(s) and raises IndexError otherwise
PyIndexOk(s, i) == (0 - Len(s)) <= i /\ i < Len(s)
PyIndex(s, i) == IF i >= 0 THEN s[i + 1] ELSE s[Len(s) + i + 1]

\* [x] * n
Repeat(x, n) == [i \in 1..Max(n, 0) |-> x]

Keys(d) == {d[i][1] : i \in 1..Len(d)}
DictHas(d, k) == \E i \in 1..Len(d) : d[i][1] = k
DictGet(d, k, default) ==
    IF DictHas(d, k) THEN d[CHOOSE i \in 1..Len(d) : d[i][1] = k][2]
    ELSE default
\* d[k] = v: an existing key keeps its position, a new key goes last
DictSet(d, k, v) ==
    IF DictHas(d, k)
    THEN [i \in 1..Len(d) |-> IF d[i][1] = k THEN <<k, v>> ELSE d[i]]
    ELSE Append(d, <<k, v>>)

RECURSIVE SumValues(_)
SumValues(d) == IF d = <<>> THEN 0 ELSE d[1][2] + SumValues(Tail(d))

\* rationals
Zero == <<0, 1>>
One == <<1, 1>>
Add(p, q) == <<p[1] * q[2] + q[1] * p[2], p[2] * q[2]>>
Leq(p, q) == p[1] * q[2] <= q[1] * p[2]
Same(p, q) == p[1] * q[2] = q[1] * p[2]
Positive(p) == p[1] > 0

\* ------------------------------------------------------ ngram_frequencies
\* tokens = ["*S*"] * order + tokens + ["*E*"]
Padded(toks, ord) == Repeat(START, ord) \o toks \o <<END>>

NgramRangeShort(padded, ord) == Len(padded) - ord - 1
\* range(len(tokens) - order): the number of window positions
NgramRange(padded, ord) == Len(padded) - ord

\* freqs[state][next_token] += 1 on a defaultdict of defaultdict(int)
Increment(fr, st, tok) ==
    LET inner == DictGet(fr, st, <<>>)
    IN  DictSet(fr, st, DictSet(inner, tok, DictGet(inner, tok, 0) + 1))

RECURSIVE NgramLoop(_, _, _, _)
NgramLoop(padded, ord, i, fr) ==
    IF i >= NgramRange(padded, ord) THEN Return(fr)
    ELSE IF ~PyIndexOk(padded, i + ord) THEN Raise("IndexError")
    ELSE NgramLoop(padded, ord, i + 1,
                   Increment(fr, PySlice(padded, i, i + ord),
                             PyIndex(padded, i + ord)))

NgramFrequencies(toks, ord) == NgramLoop(Padded(toks, ord), ord, 0, <<>>)

BuildMarkovModel(toks, ord) == NgramFrequencies(toks, ord)

\* --------------------------------------------------- distribution builder
RECURSIVE DistributionFrequenciesFrom(_, _)
DistributionFrequenciesFrom(items, fr) ==
    IF items = <<>> THEN fr
    ELSE DistributionFrequenciesFrom(
             Tail(items), DictSet(fr, items[1], DictGet(fr, items[1], 0) + 1))

DistributionFrequencies(items) == DistributionFrequenciesFrom(items, <<>>)

DistributionProbabilities(fr) ==
    LET total == SumValues(fr)
    IN  [i \in 1..Len(fr) |->
            <<fr[i][1], IF total = 0 THEN Zero ELSE <<fr[i][2], total>>>>]

\* ------------------------------------------------------------ beta, omega
BetaFrequencies(toks, ord) ==
    LET padded == Repeat(START, ord) \o toks
        start_state == PySlice(padded, 0, ord)
    IN  DistributionFrequencies(<<start_state>>)

BetaProbabilities(beta_freqs) == DistributionProbabilities(beta_freqs)

OmegaFrequenciesEndOnly(markov_model) ==
    SelectSeq([i \in 1..Len(markov_model) |->
                  <<markov_model[i][1], DictGet(markov_model[i][2], END, 0)>>],
              LAMBDA e : e[2] > 0)
OmegaFrequencies(markov_model) ==
    [i \in 1..Len(markov_model) |->
        <<markov_model[i][1],
          IF DictHas(markov_model[i][2], END)
          THEN DictGet(markov_model[i][2], END, 0) ELSE 0>>]

OmegaProbabilities(omega_freqs) == DistributionProbabilities(omega_freqs)

\* --------------------------------------------------------- weighted_choice
SelectedStrict(rr, cumulative) == ~Leq(cumulative, rr)
\* if r <= cumulative
Selected(rr, cumulative) == Leq(rr, cumulative)

FallThroughNone(options) ==
    IF options = <<>> THEN Return("None")
    ELSE Return(options[Len(options)][1])
\* the return after the loop: token is the last key iterated, and is unbound
\* when the loop body never ran
FallThrough(options) ==
    IF options = <<>> THEN Raise("UnboundLocalError")
    ELSE Return(options[Len(options)][1])

RECURSIVE WeightedChoiceLoop(_, _, _, _)
WeightedChoiceLoop(options, rr, i, cumulative) ==
    IF i > Len(options) THEN FallThrough(options)
    ELSE LET c == Add(cumulative, options[i][2])
         IN  IF Selected(rr, c) THEN Return(options[i][1])
             ELSE WeightedChoiceLoop(options, rr, i + 1, c)

WeightedChoice(options, rr) == WeightedChoiceLoop(options, rr, 1, Zero)

\* ----------------------------------------------------------- get_next_word
\* the transition counts of the state, each divided by their total
TransitionProbs(st, mdl) ==
    IF DictHas(mdl, st)
    THEN LET transitions == DictGet(mdl, st, <<>>)
             total == SumValues(transitions)
         IN  [i \in 1..Len(transitions) |->
                 <<transitions[i][1], <<transitions[i][2], total>>>>]
    ELSE <<>>

EndCandidateAlways(end_prob) == Leq(Zero, end_prob)
\* if end_prob > 0
EndCandidate(end_prob) == Positive(end_prob)

NextTokenProbsEndFirst(st, mdl, omega) ==
    LET end_prob == DictGet(omega, st, Zero)
        probs == TransitionProbs(st, mdl)
    IN  IF EndCandidate(end_prob)
        THEN <<<<END, end_prob>>>> \o SelectSeq(probs, LAMBDA e : e[1] # END)
        ELSE probs
\* next_token_probs as handed to weighted_choice
NextTokenProbs(st, mdl, omega) ==
    LET end_prob == DictGet(omega, st, Zero)
        probs == TransitionProbs(st, mdl)
    IN  IF EndCandidate(end_prob) THEN DictSet(probs, END, end_prob)
        ELSE probs

\* count / total with total = 0
DividesByZero(st, mdl) ==
    /\ DictHas(mdl, st)
    /\ DictGet(mdl, st, <<>>) # <<>>
    /\ SumValues(DictGet(mdl, st, <<>>)) = 0

GetNextWord(st, mdl, omega, rr) ==
    IF DividesByZero(st, mdl) THEN Raise("ZeroDivisionError")
    ELSE WeightedChoice(NextTokenProbs(st, mdl, omega), rr)

LoopRunsOnceMore(n, cap) == n <= cap
\* for _ in range(max_words): the body runs while fewer than max_words
\* iterations were made
LoopRuns(n, cap) == n < cap

ShiftKeepOldest(cs, tok) == cs \o <<tok>>
\* tuple(list(current_state[1:]) + [next_token])
Shift(cs, tok) == PySlice(cs, 1, Len(cs)) \o <<tok>>

\* ------------------------------------------------------------------ inputs
SeqsUpTo(S, n) == UNION {[1..k -> S] : k \in 0..n}

\* dicts of at most n entries with keys in K and values in V
OrderedDicts(K, V, n) ==
    {d \in SeqsUpTo(K \X V, n) :
        \A i, j \in 1..Len(d) : i # j => d[i][1] # d[j][1]}

Words == {"a", "b"}
Texts == SeqsUpTo(Words, MaxLen)
Orders == (0 - MaxNegOrder)..MaxOrder
Draws == {<<j, RD>> : j \in 0..(RD - 1)}

\* inputs of the sampler that no text produced
ArbStates == {<<"a">>, <<"b">>}
ArbTransitions == OrderedDicts(Words \cup {END}, {1, 2}, 2)
ArbModels == {<<>>} \cup {<<<<<<"a">>, t>>>> : t \in ArbTransitions}
ArbOmegas ==
    {o \in OrderedDicts(ArbStates, {Zero, <<1, 2>>}, 2) :
        Len(o) = 2 => o[1][1] = <<"a">>}
ArbBetas == OrderedDicts(ArbStates, {<<1, 2>>}, 2)
ArbKeys == {"x", "y", "z"}
ArbFreqs == OrderedDicts(ArbKeys, 0..MaxCount, MaxKeys)
ArbOptions == OrderedDicts(ArbKeys, {<<j, Grid>> : j \in 0..Grid}, MaxKeys)

NoCall == Return("")

\* ------------------------------------------------------------------- state
NoModel == model = <<>> /\ beta_probs = <<>> /\ omega_probs = <<>>

Idle ==
    /\ current_state = <<>> /\ generated = <<>> /\ calls = 0
    /\ state = <<>> /\ next_token_probs = <<>> /\ r = Zero
    /\ next_token = "" /\ choice = NoCall /\ err = ""

\* the driver: a text, an order and a length cap
Init ==
    /\ tokens \in Texts
    /\ order \in Orders
    /\ max_words \in 0..MaxWords
    /\ freqs = <<>> /\ options_dict = <<>>
    /\ pc = "build"
    /\ NoModel /\ Idle

\* generate_random_text, distribution_probabilities and weighted_choice
\* called on arguments of any content
InitArb ==
    /\ tokens = <<>> /\ order = 1
    /\ \/ /\ pc = "start"
          /\ max_words \in 0..MaxWords
          /\ freqs = <<>> /\ options_dict = <<>>
          /\ Idle
          /\ \E m \in ArbModels, b \in ArbBetas, o \in ArbOmegas :
                model = m /\ beta_probs = b /\ omega_probs = o
       \/ /\ pc = "freqs"
          /\ max_words = 0
          /\ freqs \in ArbFreqs /\ options_dict = <<>>
          /\ NoModel /\ Idle
       \/ /\ pc = "options"
          /\ max_words = 0
          /\ freqs = <<>> /\ options_dict \in ArbOptions
          /\ NoModel /\ Idle

\* ----------------------------------------------------------------- actions
inputs == <<tokens, order, max_words>>
built == <<model, beta_probs, omega_probs>>
run == <<current_state, generated, calls, state, next_token_probs,
         next_token>>
sampler == <<freqs, options_dict, choice, r>>

\* the driver's model = build_markov_model(...), beta_probs = ..., omega_probs
BuildModel ==
    /\ pc = "build"
    /\ LET built_model == BuildMarkovModel(tokens, order)
       IN  IF built_model.raised
           THEN /\ pc' = "error"
                /\ err' = built_model.value
                /\ UNCHANGED built
           ELSE /\ model' = built_model.value
                /\ beta_probs' =
                       BetaProbabilities(BetaFrequencies(tokens, order))
                /\ omega_probs' =
                       OmegaProbabilities(OmegaFrequencies(built_model.value))
                /\ pc' = "start"
                /\ err' = err
    /\ UNCHANGED <<inputs, run, sampler>>

\* current_state = weighted_choice(beta_probs); generated = []
ChooseStart ==
    /\ pc = "start"
    /\ \E rr \in Draws :
        LET start == WeightedChoice(beta_probs, rr)
        IN  IF start.raised
            THEN /\ pc' = "error"
                 /\ err' = start.value
                 /\ UNCHANGED current_state
            ELSE /\ current_state' = start.value
                 /\ pc' = "loop"
                 /\ err' = err
    /\ generated' = <<>>
    /\ UNCHANGED <<inputs, built, calls, state, next_token_probs, next_token,
                   sampler>>

\* one iteration of for _ in range(max_words)
NextWord ==
    /\ pc = "loop"
    /\ LoopRuns(calls, max_words)
    /\ calls' = calls + 1
    /\ state' = current_state
    /\ next_token_probs' = NextTokenProbs(current_state, model, omega_probs)
    /\ \E rr \in Draws :
        LET word == GetNextWord(current_state, model, omega_probs, rr)
        IN  IF word.raised
            THEN /\ pc' = "error"
                 /\ err' = word.value
                 /\ UNCHANGED <<next_token, generated, current_state>>
            ELSE /\ next_token' = word.value
                 /\ err' = err
                 /\ IF word.value = END
                    THEN /\ pc' = "done"
                         /\ UNCHANGED <<generated, current_state>>
                    ELSE /\ generated' = Append(generated, word.value)
                         /\ current_state' = Shift(current_state, word.value)
                         /\ pc' = pc
    /\ UNCHANGED <<inputs, built, sampler>>

\* the loop ran max_words times: return " ".join(generated)
ReturnText ==
    /\ pc = "loop"
    /\ ~LoopRuns(calls, max_words)
    /\ pc' = "done"
    /\ UNCHANGED <<inputs, built, run, sampler, err>>

\* options_dict = distribution_probabilities(freqs)
Normalise ==
    /\ pc = "freqs"
    /\ options_dict' = DistributionProbabilities(freqs)
    /\ pc' = "options"
    /\ UNCHANGED <<inputs, built, run, freqs, choice, r, err>>

\* weighted_choice(options_dict) with the draw r
Sample ==
    /\ pc = "options"
    /\ \E rr \in Draws :
        /\ r' = rr
        /\ choice' = WeightedChoice(options_dict, rr)
    /\ err' = IF choice'.raised THEN choice'.value ELSE err
    /\ pc' = "sampled"
    /\ UNCHANGED <<inputs, built, run, freqs, options_dict>>

Next == BuildModel \/ ChooseStart \/ NextWord \/ ReturnText

NextArb == ChooseStart \/ NextWord \/ ReturnText \/ Normalise \/ Sample

Spec == Init /\ [][Next]_vars

SpecArb == InitArb /\ [][NextArb]_vars

\* ================================================================== claims
\* padded token sequence and the transitions the text shows
Window(i) == SubSeq(Padded(tokens, order), i + 1, i + order)
Following(i) == Padded(tokens, order)[i + order + 1]
Positions == 0..Len(tokens)
Occurrences(st, tok) ==
    Cardinality({i \in Positions : Window(i) = st /\ Following(i) = tok})
Built == pc # "build" /\ order >= 1
WellFormed(d) == \A i, j \in 1..Len(d) : i # j => d[i][1] # d[j][1]

\* C2: for a token sequence of length n and an order k >= 1, the table of
\* ngram_frequencies stores for (state, next) the number of positions
\* 0..n of the padded sequence where state is followed by next, has no other
\* entry, stores only counts >= 1 and states of k tokens, its counts total
\* n + 1, the last window maps to *E*; for order 1 and tokens a, b it is
\* (*S*,)->{a:1}, (a,)->{b:1}, (b,)->{*E*:1}.
C2_NgramCounts ==
    Built =>
        /\ model # <<>> /\ WellFormed(model)
        /\ \A e \in {model[i] : i \in 1..Len(model)} :
              /\ Len(e[1]) = order
              /\ e[2] # <<>> /\ WellFormed(e[2])
              /\ \A t \in {e[2][j] : j \in 1..Len(e[2])} :
                    t[2] >= 1 /\ t[2] = Occurrences(e[1], t[1])
        /\ \A i \in Positions :
              /\ DictHas(model, Window(i))
              /\ DictHas(DictGet(model, Window(i), <<>>), Following(i))
        /\ SumValues([i \in 1..Len(model) |->
                         <<model[i][1], SumValues(model[i][2])>>])
               = Len(tokens) + 1
        /\ DictGet(DictGet(model, Window(Len(tokens)), <<>>), END, 0) >= 1
        /\ (order = 1 /\ tokens = <<"a", "b">>) =>
               model = << <<<<START>>, <<<<"a", 1>>>>>>,
                          <<<<"a">>, <<<<"b", 1>>>>>>,
                          <<<<"b">>, <<<<END, 1>>>>>> >>

C2_Witness ==
    /\ Built /\ pc = "start"
    /\ \E i \in 1..Len(model) : \E j \in 1..Len(model[i][2]) :
          model[i][2][j][2] = 2 /\ Len(model[i][2]) = 2

\* C3: for a table built from a text, the omega probabilities have an entry
\* for every state of the table and for no other state, exactly 0.0 for a
\* state with no transition to *E*, and 1.0 for a state whose only
\* transition is a single transition to *E*.
C3_OmegaEntries ==
    Built =>
        /\ Keys(omega_probs) = Keys(model)
        /\ Len(omega_probs) = Len(model)
        /\ \A e \in {model[i] : i \in 1..Len(model)} :
              LET p == DictGet(omega_probs, e[1], Zero)
              IN  /\ DictHas(omega_probs, e[1])
                  /\ ~DictHas(e[2], END) => p[1] = 0
                  /\ e[2] = <<<<END, 1>>>> => (p[1] = p[2] /\ p[1] > 0)

C3_Witness ==
    /\ Built /\ pc = "start"
    /\ \E i, j \in 1..Len(model) :
          /\ ~DictHas(model[i][2], END)
          /\ DictGet(omega_probs, model[i][1], One) = Zero
          /\ model[j][2] = <<<<END, 1>>>>
          /\ DictGet(omega_probs, model[j][1], Zero) = One

RECURSIVE PrefixSum(_, _)
PrefixSum(d, i) == IF i = 0 THEN Zero ELSE Add(PrefixSum(d, i - 1), d[i][2])
Reaching(d, rr) == {i \in 1..Len(d) : Leq(rr, PrefixSum(d, i))}
FirstOf(S) == CHOOSE i \in S : \A j \in S : i <= j
LastKey(d) == d[Len(d)][1]

\* C4: on a non-empty distribution and a draw r in [0,1), weighted_choice
\* returns the first key in insertion order whose cumulative probability is
\* >= r, and the last key iterated when no key reaches r; on {x: 1.0} it
\* returns x for every r.
C4_FirstReaching ==
    (pc = "sampled" /\ options_dict # <<>>) =>
        /\ ~choice.raised
        /\ choice.value =
              IF Reaching(options_dict, r) = {} THEN LastKey(options_dict)
              ELSE options_dict[FirstOf(Reaching(options_dict, r))][1]
        /\ (Len(options_dict) = 1 /\ Same(options_dict[1][2], One)) =>
               choice.value = options_dict[1][1]

C4_Witness ==
    /\ pc = "sampled" /\ Len(options_dict) = 2
    /\ Positive(options_dict[1][2]) /\ Positive(options_dict[2][2])
    /\ Reaching(options_dict, r) = {}
    /\ choice = Return(LastKey(options_dict))

\* C5: building the model with an order <= 0 fails with an
\* invalid-argument failure and returns neither a transition table nor a
\* beta frequency map.
C5_OrderRejected ==
    (order <= 0 /\ pc # "build") =>
        (pc = "error" /\ model = <<>> /\ beta_probs = <<>>)

InRun == pc \in {"loop", "done", "error"}

\* C6: weighted_choice on an empty distribution raises and returns no value
\* (not None), also when generate_random_text reaches it with an empty beta
\* distribution or get_next_word with an empty candidate distribution.
C6_EmptyRaises ==
    /\ (pc = "sampled" /\ options_dict = <<>>) =>
           choice = Raise("UnboundLocalError")
    /\ (InRun /\ beta_probs = <<>>) =>
           (pc = "error" /\ err = "UnboundLocalError" /\ calls = 0)
    /\ (InRun /\ calls > 0 /\ next_token_probs = <<>>) =>
           (pc = "error" /\ err = "UnboundLocalError")

C6_Witness ==
    /\ pc = "error" /\ err = "UnboundLocalError"
    /\ calls = 2 /\ next_token_probs = <<>> /\ Len(generated) = 1

Normalised == pc \in {"options", "sampled"} /\ freqs # <<>>
AllZero(d) == \A i \in 1..Len(d) : d[i][2] = Zero

\* C7 as stated: a frequency map of total zero is normalised to all-zero
\* probabilities without error, and weighted_choice on it returns the
\* last-iterated key for every draw r in [0,1).
C7_ZeroTotalLastKey ==
    (Normalised /\ SumValues(freqs) = 0) =>
        /\ AllZero(options_dict) /\ err = ""
        /\ pc = "sampled" => choice = Return(LastKey(options_dict))

\* C7 amended: a non-empty frequency map of total zero is normalised to
\* all-zero probabilities over the same keys without error, and
\* weighted_choice on it returns the last-iterated key for every draw r in
\* (0,1) and the first key for the draw r = 0.
C7_ZeroTotalAmended ==
    (Normalised /\ SumValues(freqs) = 0) =>
        /\ AllZero(options_dict) /\ err = ""
        /\ [i \in 1..Len(options_dict) |-> options_dict[i][1]]
               = [i \in 1..Len(freqs) |-> freqs[i][1]]
        /\ pc = "sampled" =>
              choice = IF r[1] = 0 THEN Return(options_dict[1][1])
                       ELSE Return(LastKey(options_dict))

C7_Witness ==
    /\ Normalised /\ SumValues(freqs) = 0 /\ Len(freqs) = 2
    /\ pc = "sampled" /\ r[1] > 0
    /\ choice = Return(freqs[2][1])

Generating == pc \in {"start", "loop", "done", "error"}
Stopped == pc \in {"done", "error"}

\* C1 as stated: for any table, beta and omega distributions and any
\* max_words >= 0, generate_random_text terminates after at most max_words
\* calls of get_next_word and returns at most max_words tokens; with
\* max_words = 0 it makes no call and returns an empty output.
C1_AlwaysReturns ==
    Generating =>
        /\ calls <= max_words
        /\ Stopped \/ ENABLED NextArb
        /\ pc # "error"
        /\ pc = "done" => Len(generated) <= max_words
        /\ (max_words = 0 /\ pc = "done") => (calls = 0 /\ generated = <<>>)

\* C1 amended: generate_random_text stops after at most max_words calls of
\* get_next_word, either returning at most max_words tokens or with the
\* UnboundLocalError of weighted_choice on an empty distribution; with
\* max_words = 0 it makes no call and, unless beta is empty, returns an
\* empty output.
C1_BoundedRun ==
    Generating =>
        /\ calls <= max_words
        /\ Stopped \/ ENABLED NextArb
        /\ pc = "error" <=> err # ""
        /\ pc = "error" =>
              /\ err = "UnboundLocalError"
              /\ beta_probs = <<>> \/ (calls > 0 /\ next_token_probs = <<>>)
        /\ pc = "done" => Len(generated) <= max_words
        /\ max_words = 0 => calls = 0
        /\ (max_words = 0 /\ Stopped /\ beta_probs # <<>>) =>
               (pc = "done" /\ generated = <<>>)

NoEnd ==
    /\ \A i \in 1..Len(model) : ~DictHas(model[i][2], END)
    /\ \A i \in 1..Len(omega_probs) : ~Positive(omega_probs[i][2])

C1_Witness ==
    /\ pc = "done" /\ NoEnd /\ max_words >= 2
    /\ calls = max_words /\ Len(generated) = max_words

Transitions == DictGet(model, state, <<>>)
EndProb == DictGet(omega_probs, state, Zero)

\* C8 as stated: the candidates get_next_word hands to weighted_choice are
\* the state's normalised transition counts plus *E* with weight
\* omega_probs[state], and *E* is a candidate only when omega_probs[state]
\* > 0, so *E* is never returned for a state with zero or missing omega.
C8_EndOnlyWithOmega ==
    (Generating /\ calls > 0) =>
        /\ DictHas(next_token_probs, END) => Positive(EndProb)
        /\ next_token = END => Positive(EndProb)

\* C8 amended: the candidates are the state's normalised transition counts,
\* with the weight of *E* replaced by omega_probs[state] when that is > 0;
\* *E* is a candidate exactly when omega_probs[state] > 0 or the state's
\* transitions contain *E*, so *E* is never returned for a state with zero
\* or missing omega whose transitions do not contain *E*.
C8_Candidates ==
    (Generating /\ calls > 0) =>
        /\ WellFormed(next_token_probs)
        /\ Keys(next_token_probs) \ {END} = Keys(Transitions) \ {END}
        /\ \A t \in {Transitions[i] : i \in 1..Len(Transitions)} :
              (t[1] # END \/ ~Positive(EndProb)) =>
                  Same(DictGet(next_token_probs, t[1], Zero),
                       <<t[2], SumValues(Transitions)>>)
        /\ DictHas(next_token_probs, END) <=>
               (Positive(EndProb) \/ DictHas(Transitions, END))
        /\ Positive(EndProb) => DictGet(next_token_probs, END, Zero) = EndProb
        /\ (pc # "error" /\ next_token = END) =>
               (Positive(EndProb) \/ DictHas(Transitions, END))
        /\ pc # "error" => next_token \in Keys(next_token_probs)

C8_Witness ==
    /\ Generating /\ calls > 0 /\ pc = "done"
    /\ ~DictHas(omega_probs, state) /\ DictHas(Transitions, END)
    /\ Len(Transitions) = 2 /\ next_token = END

\* C9: with table, beta and omega built from one token sequence with one
\* order k >= 1, every iteration of generate_random_text has a current
\* state of exactly k tokens that is a key of the table, starting from k
\* start markers; the candidates are never empty, nothing raises, and every
\* token get_next_word returns was seen after that state in the text.
C9_StateInTable ==
    Built =>
        /\ pc # "error" /\ err = ""
        /\ (pc = "loop" /\ calls = 0) => current_state = Repeat(START, order)
        /\ pc = "loop" =>
              (Len(current_state) = order /\ DictHas(model, current_state))
        /\ calls > 0 =>
              /\ Len(state) = order /\ DictHas(model, state)
              /\ next_token_probs # <<>>
              /\ Occurrences(state, next_token) >= 1
        /\ \A j \in 1..Len(generated) :
              \E i \in 1..Len(tokens) : tokens[i] = generated[j]

C9_Witness ==
    /\ Built /\ pc = "loop" /\ calls = 3
    /\ Len(generated) = 3 /\ generated # tokens

\* C10: for a table and omega built from one text, for every state of the
\* table and every draw r, get_next_word returns what weighted_choice
\* returns on that state's transition counts normalised alone; *E* is the
\* last key of the mapping of the state that has it.
C10_SameAsNormalised ==
    (Built /\ pc = "start") =>
        \A i \in 1..Len(model) :
            /\ DictHas(model[i][2], END) => LastKey(model[i][2]) = END
            /\ \A rr \in Draws :
                  GetNextWord(model[i][1], model, omega_probs, rr)
                      = WeightedChoice(TransitionProbs(model[i][1], model), rr)

C10_Witness ==
    /\ Built /\ pc = "start"
    /\ \E i \in 1..Len(model) :
          LET cand == NextTokenProbs(model[i][1], model, omega_probs)
          IN  /\ Len(cand) >= 2 /\ LastKey(cand) = END
              /\ ~Leq(PrefixSum(cand, Len(cand)), One)
              /\ cand # TransitionProbs(model[i][1], model)
====
